---- MODULE Spec2Model ----
(***************************************************************************)
(* A model of resultfier: the Ok / Err classes (lib/core/ok.ts and the Err *)
(* class beside it), their constructors ok() and err(), the free type      *)
(* guards isOk() / isErr(), and the callbacks the README uses with them.   *)
(*                                                                         *)
(* Instances live in a heap (a sequence; an instance's index is its        *)
(* identity), so that "returns this" and "returns a new instance" differ.  *)
(* Every method is an operator from (heap, receiver, argument) to a        *)
(* completion: whether it returned or threw, the value returned or thrown, *)
(* the heap afterwards and the callback invocations it made.               *)
(***************************************************************************)
EXTENDS Integers, Sequences, FiniteSets

VARIABLES heap, last, calls, chain, pc, trail, status

vars == <<heap, last, calls, chain, pc, trail, status>>

(***************************************************************************)
(* Bounds of the model.                                                    *)
(***************************************************************************)
MaxObjs == 2
MaxChain == 3
NumeralRange == 40

(***************************************************************************)
(* JavaScript values.                                                      *)
(***************************************************************************)
Num(n) == [t |-> "number", n |-> n]
NaN == [t |-> "NaN"]
Str(s) == [t |-> "string", s |-> s]
Bool(b) == [t |-> "boolean", b |-> b]
Obj(k) == [t |-> "object", id |-> k]
Sym(k) == [t |-> "symbol", id |-> k]
Ref(i) == [t |-> "result", ref |-> i]
Undefined == [t |-> "undefined"]
ErrorObj(msg) == [t |-> "Error", message |-> msg]
TypeErrorObj(msg) == [t |-> "TypeError", message |-> msg]

\* The payloads and arguments the callers of the model pass in.
Values == {Num(5), NaN, Str("5"), Obj(1), Sym(1)}

Digit == <<"0", "1", "2", "3", "4", "5", "6", "7", "8", "9">>

RECURSIVE NumStr(_)
NumStr(n) == IF n < 10 THEN Digit[n + 1]
             ELSE NumStr(n \div 10) \o Digit[(n % 10) + 1]

\* String(x) of a value that converts (every value but a symbol).
ToString(x) ==
  CASE x.t = "number" -> NumStr(x.n)
    [] x.t = "NaN" -> "NaN"
    [] x.t = "string" -> x.s
    [] x.t = "boolean" -> (IF x.b THEN "true" ELSE "false")
    [] x.t = "undefined" -> "undefined"
    [] x.t \in {"object", "result"} -> "[object Object]"
    [] x.t \in {"Error", "TypeError"} -> x.t \o ": " \o x.message

\* Number(x) of a value that converts (every value but a symbol).
ToNumber(x) ==
  CASE x.t \in {"number", "NaN"} -> x
    [] x.t = "string" ->
         IF \E n \in 0..NumeralRange : NumStr(n) = x.s
           THEN Num(CHOOSE n \in 0..NumeralRange : NumStr(n) = x.s)
           ELSE NaN
    [] x.t = "boolean" -> (IF x.b THEN Num(1) ELSE Num(0))
    [] OTHER -> NaN

\* a === b: NaN equals nothing, itself included; two numbers or two strings
\* are equal when they are the same; objects and symbols by identity.
StrictEquals(a, b) ==
  IF a.t = "NaN" \/ b.t = "NaN" THEN FALSE ELSE a = b

(***************************************************************************)
(* Completions.                                                            *)
(***************************************************************************)
Return(val, h, cs) == [kind |-> "return", val |-> val, heap |-> h, calls |-> cs]
Throw(val, h, cs) == [kind |-> "throw", val |-> val, heap |-> h, calls |-> cs]

\* `${prefix}${x}`: a template literal throws on a symbol.
Template(prefix, x, h) ==
  IF x.t = "symbol"
    THEN Throw(TypeErrorObj("Cannot convert a Symbol value to a string"), h, <<>>)
    ELSE Return(Str(prefix \o ToString(x)), h, <<>>)

(***************************************************************************)
(* The classes.                                                            *)
(***************************************************************************)
OkObj(value) == [tag |-> "ok", isOk |-> TRUE, isErr |-> FALSE, value |-> value]
ErrObj(error) == [tag |-> "err", isOk |-> FALSE, isErr |-> TRUE, error |-> error]

\* new Ok(value) / new Err(error): the instance is the heap's next cell.
ok(value, h) == Return(Ref(Len(h) + 1), Append(h, OkObj(value)), <<>>)
err(error, h) == Return(Ref(Len(h) + 1), Append(h, ErrObj(error)), <<>>)

(***************************************************************************)
(* The callbacks callers pass in (the README's, and one that throws).      *)
(***************************************************************************)
\* x * 2
Times2(x, h) ==
  IF x.t = "symbol"
    THEN Throw(TypeErrorObj("Cannot convert a Symbol value to a number"), h, <<>>)
    ELSE LET n == ToNumber(x)
         IN  Return(IF n.t = "number" THEN Num(n.n * 2) ELSE n, h, <<>>)

\* x > 3 ? ok(`Large: ${x}`) : err("Too small")
Classify(x, h) ==
  IF x.t = "symbol"
    THEN Throw(TypeErrorObj("Cannot convert a Symbol value to a number"), h, <<>>)
    ELSE LET n == ToNumber(x)
         IN  IF n.t = "number" /\ n.n > 3
               THEN ok(Template("Large: ", x, h).val, h)
               ELSE err(Str("Too small"), h)

ValueFns == {"identity", "double", "enhance", "raise"}
ResultFns == {"classify", "capture", "raise"}

\* The body of callback fn on argument x.
Body(fn, x, h) ==
  CASE fn = "identity" -> Return(x, h, <<>>)
    [] fn = "double" -> Times2(x, h)
    [] fn = "enhance" -> Template("Enhanced: ", x, h)
    [] fn = "classify" -> Classify(x, h)
    [] fn = "capture" -> Return(Ref(1), h, <<>>)
    [] fn = "raise" -> Throw(ErrorObj("boom"), h, <<>>)

\* fn(x): the completion of the body, with the invocation logged.
Call(fn, x, h) ==
  LET r == Body(fn, x, h)
  IN  [r EXCEPT !.calls = <<[fn |-> fn, arg |-> x, kind |-> r.kind, val |-> r.val]>>]

(***************************************************************************)
(* class Ok<T>                                                             *)
(***************************************************************************)
\* A map that forgets to apply fn: return this;
OkMap_NoOp(self, fn, h) == Return(Ref(self), h, <<>>)

\* return new Ok(fn(this.value));
OkMap(self, fn, h) ==
  LET r == Call(fn, h[self].value, h)
  IN  IF r.kind = "throw" THEN r
      ELSE LET o == ok(r.val, r.heap) IN Return(o.val, o.heap, r.calls)

\* A mapErr that applies fn on an Ok too: return new Ok(fn(this.value));
OkMapErr_Applies(self, fn, h) ==
  LET r == Call(fn, h[self].value, h)
  IN  IF r.kind = "throw" THEN r
      ELSE LET o == ok(r.val, r.heap) IN Return(o.val, o.heap, r.calls)

\* return this;
OkMapErr(self, fn, h) == Return(Ref(self), h, <<>>)

\* An unwrap that reads the other class's field: return this.error;
OkUnwrap_WrongField(self, h) == Return(Undefined, h, <<>>)

\* return this.value;
OkUnwrap(self, h) == Return(h[self].value, h, <<>>)

\* throw new Error(`Called unwrapErr() on an Ok value: ${this.value}`);
OkUnwrapErr(self, h) ==
  LET m == Template("Called unwrapErr() on an Ok value: ", h[self].value, h)
  IN  IF m.kind = "throw" THEN m ELSE Throw(ErrorObj(m.val.s), h, <<>>)

\* return this.value;
OkUnwrapOr(self, defaultValue, h) == Return(h[self].value, h, <<>>)

\* return this.value;
OkUnwrapOrElse(self, fn, h) == Return(h[self].value, h, <<>>)

\* An andThen that wraps like map: return new Ok(fn(this.value));
OkAndThen_Wraps(self, fn, h) ==
  LET r == Call(fn, h[self].value, h)
  IN  IF r.kind = "throw" THEN r
      ELSE LET o == ok(r.val, r.heap) IN Return(o.val, o.heap, r.calls)

\* return fn(this.value);
OkAndThen(self, fn, h) == Call(fn, h[self].value, h)

\* A contains that compares with Object.is: NaN is then equal to itself.
OkContains_SameValue(self, value, h) ==
  Return(Bool(h[self].value = value), h, <<>>)

\* return this.value === value;
OkContains(self, value, h) ==
  Return(Bool(StrictEquals(h[self].value, value)), h, <<>>)

\* return false;
OkContainsErr(self, error, h) == Return(Bool(FALSE), h, <<>>)

(***************************************************************************)
(* class Err<E>                                                            *)
(***************************************************************************)
\* A map that copies the receiver: return new Err(this.error);
ErrMap_Copies(self, fn, h) == err(h[self].error, h)

\* return this;
ErrMap(self, fn, h) == Return(Ref(self), h, <<>>)

\* A mapErr that writes the receiver: this.error = fn(this.error); return this;
ErrMapErr_InPlace(self, fn, h) ==
  LET r == Call(fn, h[self].error, h)
  IN  IF r.kind = "throw" THEN r
      ELSE Return(Ref(self), [r.heap EXCEPT ![self].error = r.val], r.calls)

\* return new Err(fn(this.error));
ErrMapErr(self, fn, h) ==
  LET r == Call(fn, h[self].error, h)
  IN  IF r.kind = "throw" THEN r
      ELSE LET o == err(r.val, r.heap) IN Return(o.val, o.heap, r.calls)

\* An unwrap that hands the error back instead of throwing: return this.error;
ErrUnwrap_Returns(self, h) == Return(h[self].error, h, <<>>)

\* throw new Error(`Called unwrap() on an Err value: ${this.error}`);
ErrUnwrap(self, h) ==
  LET m == Template("Called unwrap() on an Err value: ", h[self].error, h)
  IN  IF m.kind = "throw" THEN m ELSE Throw(ErrorObj(m.val.s), h, <<>>)

\* return this.error;
ErrUnwrapErr(self, h) == Return(h[self].error, h, <<>>)

\* An unwrapOr that ignores the default: return this.error;
ErrUnwrapOr_ReturnsError(self, defaultValue, h) == Return(h[self].error, h, <<>>)

\* return defaultValue;
ErrUnwrapOr(self, defaultValue, h) == Return(defaultValue, h, <<>>)

\* return fn(this.error);
ErrUnwrapOrElse(self, fn, h) == Call(fn, h[self].error, h)

\* An andThen that runs fn on an Err too: return fn(this.error);
ErrAndThen_Invokes(self, fn, h) == Call(fn, h[self].error, h)

\* return this;
ErrAndThen(self, fn, h) == Return(Ref(self), h, <<>>)

\* return false;
ErrContains(self, value, h) == Return(Bool(FALSE), h, <<>>)

\* return this.error === error;
ErrContainsErr(self, error, h) ==
  Return(Bool(StrictEquals(h[self].error, error)), h, <<>>)

(***************************************************************************)
(* The free type guards.                                                   *)
(***************************************************************************)
\* return result.isOk;
isOk(result, h) == Return(Bool(h[result].isOk), h, <<>>)

\* return result.isErr;
isErr(result, h) == Return(Bool(h[result].isErr), h, <<>>)

(***************************************************************************)
(* ResultBase's abstract methods: a call runs the receiver's class's own.  *)
(***************************************************************************)
map(self, fn, h) ==
  IF h[self].tag = "ok" THEN OkMap(self, fn, h) ELSE ErrMap(self, fn, h)
mapErr(self, fn, h) ==
  IF h[self].tag = "ok" THEN OkMapErr(self, fn, h) ELSE ErrMapErr(self, fn, h)
unwrap(self, h) ==
  IF h[self].tag = "ok" THEN OkUnwrap(self, h) ELSE ErrUnwrap(self, h)
unwrapErr(self, h) ==
  IF h[self].tag = "ok" THEN OkUnwrapErr(self, h) ELSE ErrUnwrapErr(self, h)
unwrapOr(self, d, h) ==
  IF h[self].tag = "ok" THEN OkUnwrapOr(self, d, h) ELSE ErrUnwrapOr(self, d, h)
unwrapOrElse(self, fn, h) ==
  IF h[self].tag = "ok" THEN OkUnwrapOrElse(self, fn, h)
  ELSE ErrUnwrapOrElse(self, fn, h)
andThen(self, fn, h) ==
  IF h[self].tag = "ok" THEN OkAndThen(self, fn, h) ELSE ErrAndThen(self, fn, h)
contains(self, x, h) ==
  IF h[self].tag = "ok" THEN OkContains(self, x, h) ELSE ErrContains(self, x, h)
containsErr(self, x, h) ==
  IF h[self].tag = "ok" THEN OkContainsErr(self, x, h)
  ELSE ErrContainsErr(self, x, h)

(***************************************************************************)
(* The state machine: a caller that constructs instances and calls their   *)
(* methods.  last is the latest call and how it completed; calls are the   *)
(* callback invocations that call made.                                    *)
(***************************************************************************)
Fn(name) == [t |-> "function", name |-> name]

Insts == 1..Len(heap)

NoChain == /\ chain = <<>>
           /\ pc = 0
           /\ trail = <<>>
           /\ status = "idle"

Init == /\ heap = <<>>
        /\ last = [op |-> "none", self |-> 0, arg |-> Undefined,
                   kind |-> "return", val |-> Undefined]
        /\ calls = <<>>
        /\ NoChain

\* The call op(arg) on self completed as c.
Completed(op, self, arg, c) ==
  /\ Len(c.heap) <= MaxObjs
  /\ heap' = c.heap
  /\ last' = [op |-> op, self |-> self, arg |-> arg, kind |-> c.kind, val |-> c.val]
  /\ calls' = c.calls
  /\ UNCHANGED <<chain, pc, trail, status>>

DoOk(v) == Completed("ok", 0, v, ok(v, heap))
DoErr(e) == Completed("err", 0, e, err(e, heap))
DoMap(self, fn) == Completed("map", self, Fn(fn), map(self, fn, heap))
DoMapErr(self, fn) == Completed("mapErr", self, Fn(fn), mapErr(self, fn, heap))
DoUnwrap(self) == Completed("unwrap", self, Undefined, unwrap(self, heap))
DoUnwrapErr(self) == Completed("unwrapErr", self, Undefined, unwrapErr(self, heap))
DoUnwrapOr(self, d) == Completed("unwrapOr", self, d, unwrapOr(self, d, heap))
DoUnwrapOrElse(self, fn) ==
  Completed("unwrapOrElse", self, Fn(fn), unwrapOrElse(self, fn, heap))
DoAndThen(self, fn) == Completed("andThen", self, Fn(fn), andThen(self, fn, heap))
DoContains(self, x) == Completed("contains", self, x, contains(self, x, heap))
DoContainsErr(self, x) ==
  Completed("containsErr", self, x, containsErr(self, x, heap))
DoIsOk(self) == Completed("isOk", self, Undefined, isOk(self, heap))
DoIsErr(self) == Completed("isErr", self, Undefined, isErr(self, heap))

Next ==
  \/ \E v \in Values : DoOk(v)
  \/ \E e \in Values : DoErr(e)
  \/ \E self \in Insts, fn \in ValueFns : DoMap(self, fn)
  \/ \E self \in Insts, fn \in ValueFns : DoMapErr(self, fn)
  \/ \E self \in Insts : DoUnwrap(self)
  \/ \E self \in Insts : DoUnwrapErr(self)
  \/ \E self \in Insts, d \in Values : DoUnwrapOr(self, d)
  \/ \E self \in Insts, fn \in ValueFns : DoUnwrapOrElse(self, fn)
  \/ \E self \in Insts, fn \in ResultFns : DoAndThen(self, fn)
  \/ \E self \in Insts, x \in Values : DoContains(self, x)
  \/ \E self \in Insts, x \in Values : DoContainsErr(self, x)
  \/ \E self \in Insts : DoIsOk(self)
  \/ \E self \in Insts : DoIsErr(self)

Spec == Init /\ [][Next]_vars

(***************************************************************************)
(* A chain start.andThen(f1).andThen(f2)...andThen(fn), one call a step.   *)
(* trail[k] is the receiver of step k (trail[1] is start), calls is the    *)
(* log of every callback invocation the chain made, in order.              *)
(***************************************************************************)
Chains == UNION {[1..n -> ResultFns] : n \in 1..MaxChain}

ChainInit ==
  /\ \E v \in Values : heap \in {ok(v, <<>>).heap, err(v, <<>>).heap}
  /\ chain \in Chains
  /\ pc = 1
  /\ trail = <<1>>
  /\ status = "running"
  /\ calls = <<>>
  /\ last = [op |-> "none", self |-> 0, arg |-> Undefined,
             kind |-> "return", val |-> Undefined]

\* The next .andThen(chain[pc]) of the chain, on the previous call's result.
ChainStep ==
  /\ status = "running"
  /\ pc <= Len(chain)
  /\ LET c == andThen(trail[pc], chain[pc], heap)
     IN  /\ heap' = c.heap
         /\ calls' = calls \o c.calls
         /\ last' = [op |-> "andThen", self |-> trail[pc], arg |-> Fn(chain[pc]),
                     kind |-> c.kind, val |-> c.val]
         /\ IF c.kind = "throw"
              THEN /\ status' = "thrown"
                   /\ UNCHANGED <<pc, trail>>
              ELSE /\ trail' = Append(trail, c.val.ref)
                   /\ pc' = pc + 1
                   /\ status' = IF pc = Len(chain) THEN "done" ELSE "running"
  /\ UNCHANGED chain

ChainNext == ChainStep

ChainSpec == ChainInit /\ [][ChainNext]_vars

(***************************************************************************)
(* Properties.                                                             *)
(***************************************************************************)
Held(o) == IF o.tag = "ok" THEN o.value ELSE o.error

\* The latest call was op on an Ok (OnOk) or on an Err (OnErr) receiver.
OnOk(op) == last.op = op /\ last.self \in Insts /\ heap[last.self].tag = "ok"
OnErr(op) == last.op = op /\ last.self \in Insts /\ heap[last.self].tag = "err"

\* The same of the call a step makes, its receiver read before the step.
StepOnOk(op) ==
  last'.op = op /\ last'.self \in Insts /\ heap[last'.self].tag = "ok"
StepOnErr(op) ==
  last'.op = op /\ last'.self \in Insts /\ heap[last'.self].tag = "err"

\* C1: ok(v) is an instance with isOk true and isErr false whose unwrap()
\* returns v; err(e) is an instance with isErr true and isOk false whose
\* unwrapErr() returns e.  Checked where the instance is constructed and on
\* every later unwrap() of an Ok and unwrapErr() of an Err.
C1_ConstructThenInspect ==
  /\ last.op = "ok" =>
       LET o == heap[last.val.ref]
       IN  /\ o.isOk /\ ~o.isErr
           /\ isOk(last.val.ref, heap).val = Bool(TRUE)
           /\ isErr(last.val.ref, heap).val = Bool(FALSE)
           /\ unwrap(last.val.ref, heap).kind = "return"
           /\ unwrap(last.val.ref, heap).val = last.arg
  /\ last.op = "err" =>
       LET o == heap[last.val.ref]
       IN  /\ o.isErr /\ ~o.isOk
           /\ isErr(last.val.ref, heap).val = Bool(TRUE)
           /\ isOk(last.val.ref, heap).val = Bool(FALSE)
           /\ unwrapErr(last.val.ref, heap).kind = "return"
           /\ unwrapErr(last.val.ref, heap).val = last.arg
  /\ OnOk("unwrap") => last.kind = "return" /\ last.val = heap[last.self].value
  /\ OnErr("unwrapErr") => last.kind = "return" /\ last.val = heap[last.self].error
  /\ OnOk("isOk") => last.val = Bool(TRUE)
  /\ OnOk("isErr") => last.val = Bool(FALSE)
  /\ OnErr("isOk") => last.val = Bool(FALSE)
  /\ OnErr("isErr") => last.val = Bool(TRUE)

C1_Witness ==
  /\ OnErr("unwrapErr")
  /\ last.kind = "return"
  /\ last.val = Str("5")
  /\ heap[last.self] = ErrObj(Str("5"))

\* The value unwrap() throws on an Err holding x, and unwrapErr() on an Ok
\* holding x.
ThrownByUnwrap(x) == ErrUnwrap(1, <<ErrObj(x)>>).val
ThrownByUnwrapErr(x) == OkUnwrapErr(1, <<OkObj(x)>>).val

\* C2 as stated: unwrap() on an Err and unwrapErr() on an Ok never return;
\* each throws an error of its own that carries the held payload, so that the
\* payload can be told from the error thrown: no other payload gives the same
\* error, and unwrap()'s error is never unwrapErr()'s.
C2_MisuseErrorCarriesPayload ==
  /\ OnErr("unwrap") =>
       /\ last.kind = "throw"
       /\ \A x \in Values :
            /\ ThrownByUnwrap(x) = last.val => x = heap[last.self].error
            /\ ThrownByUnwrapErr(x) # last.val
  /\ OnOk("unwrapErr") =>
       /\ last.kind = "throw"
       /\ \A x \in Values :
            /\ ThrownByUnwrapErr(x) = last.val => x = heap[last.self].value
            /\ ThrownByUnwrap(x) # last.val

\* C2 as amended: unwrap() on an Err and unwrapErr() on an Ok never return.
\* Each throws a plain Error whose message is a fixed text of its own followed
\* by the string form of the held payload; when the payload has no string
\* form (a symbol) the conversion's TypeError is thrown instead.
C2_MisuseThrowsMessage ==
  /\ OnErr("unwrap") =>
       /\ last.kind = "throw"
       /\ LET e == heap[last.self].error
          IN  last.val =
                IF e.t = "symbol"
                  THEN TypeErrorObj("Cannot convert a Symbol value to a string")
                  ELSE ErrorObj("Called unwrap() on an Err value: " \o ToString(e))
  /\ OnOk("unwrapErr") =>
       /\ last.kind = "throw"
       /\ LET v == heap[last.self].value
          IN  last.val =
                IF v.t = "symbol"
                  THEN TypeErrorObj("Cannot convert a Symbol value to a string")
                  ELSE ErrorObj("Called unwrapErr() on an Ok value: " \o ToString(v))

C2_Witness ==
  /\ OnErr("unwrap")
  /\ heap[last.self].error = Num(5)
  /\ last.kind = "throw"
  /\ last.val = ErrorObj("Called unwrap() on an Err value: 5")

\* C6: unwrapOr(d) and unwrapOrElse(fn) on an Ok return the held value and
\* never invoke fn; on an Err unwrapOr(d) returns d, and unwrapOrElse(fn)
\* invokes fn once, on the held error, and completes as that invocation did.
C6_FallbackExtraction ==
  /\ OnOk("unwrapOr") =>
       last.kind = "return" /\ last.val = heap[last.self].value /\ calls = <<>>
  /\ OnOk("unwrapOrElse") =>
       last.kind = "return" /\ last.val = heap[last.self].value /\ calls = <<>>
  /\ OnErr("unwrapOr") =>
       last.kind = "return" /\ last.val = last.arg /\ calls = <<>>
  /\ OnErr("unwrapOrElse") =>
       LET e == heap[last.self].error
           r == Body(last.arg.name, e, heap)
       IN  /\ calls = <<[fn |-> last.arg.name, arg |-> e,
                         kind |-> r.kind, val |-> r.val]>>
           /\ last.kind = r.kind
           /\ last.val = r.val
           /\ (last.arg.name = "enhance" /\ e = Str("5")) =>
                last.val = Str("Enhanced: 5")

C6_Witness ==
  /\ OnErr("unwrapOrElse")
  /\ last.arg = Fn("double")
  /\ heap[last.self].error = Num(5)
  /\ last.val = Num(10)
  /\ Len(calls) = 1

\* C7 as stated: contains(x) is true exactly on an Ok whose held value is x,
\* containsErr(x) exactly on an Err whose held error is x; so ok(v).contains(v)
\* and err(e).containsErr(e) are true for every v and e.
C7_ContainsIffSamePayload ==
  /\ last.op = "contains" =>
       /\ last.kind = "return"
       /\ last.val = Bool(heap[last.self].tag = "ok"
                             /\ heap[last.self].value = last.arg)
  /\ last.op = "containsErr" =>
       /\ last.kind = "return"
       /\ last.val = Bool(heap[last.self].tag = "err"
                             /\ heap[last.self].error = last.arg)

\* C7 as amended: contains(x) is true exactly on an Ok whose held value is
\* strictly equal (===) to x, which NaN is not even to itself: true exactly
\* when the held value is x and is not NaN.  containsErr(x) likewise on an
\* Err.  Both are false on the other variant.
C7_ContainsIffStrictlyEqual ==
  /\ last.op = "contains" =>
       /\ last.kind = "return"
       /\ last.val = Bool(/\ heap[last.self].tag = "ok"
                          /\ heap[last.self].value = last.arg
                          /\ last.arg.t # "NaN")
  /\ last.op = "containsErr" =>
       /\ last.kind = "return"
       /\ last.val = Bool(/\ heap[last.self].tag = "err"
                          /\ heap[last.self].error = last.arg
                          /\ last.arg.t # "NaN")

C7_Witness ==
  /\ OnOk("contains")
  /\ heap[last.self].value = Obj(1)
  /\ last.arg = Obj(1)
  /\ last.val = Bool(TRUE)

\* The calls the latest call's class never throws from by itself.
Misuse == OnErr("unwrap") \/ OnOk("unwrapErr")

\* C8 as stated: only unwrap() on an Err and unwrapErr() on an Ok throw;
\* map, mapErr, andThen, contains, containsErr, isOk and isErr return,
\* whatever the receiver and the argument.
C8_OnlyMisuseThrows ==
  /\ last.kind = "throw" => Misuse
  /\ last.op \in {"map", "mapErr", "andThen", "contains", "containsErr",
                  "isOk", "isErr"} => last.kind = "return"

\* C8 as amended: a call throws only when it is unwrap() on an Err or
\* unwrapErr() on an Ok, or when it is one of the calls that invoke the
\* callback (map and andThen on an Ok, mapErr and unwrapOrElse on an Err) and
\* the callback threw: then the call throws what the callback threw.
\* contains, containsErr, isOk, isErr, unwrapOr, ok and err never throw.
C8_ThrowsOnlyMisuseOrCallback ==
  /\ last.kind = "throw" =>
       \/ Misuse
       \/ /\ \/ OnOk("map") \/ OnOk("andThen")
             \/ OnErr("mapErr") \/ OnErr("unwrapOrElse")
          /\ Len(calls) = 1
          /\ calls[1].kind = "throw"
          /\ calls[1].val = last.val
  /\ last.op \in {"contains", "containsErr", "isOk", "isErr", "unwrapOr",
                  "ok", "err"} => last.kind = "return"
  /\ (\A k \in 1..Len(calls) : calls[k].kind = "return") /\ ~Misuse =>
       last.kind = "return"

C8_Witness ==
  /\ OnOk("map")
  /\ last.arg = Fn("raise")
  /\ last.kind = "throw"
  /\ last.val = ErrorObj("boom")

\* A step's call returned an instance that the heap did not hold before it.
ReturnedNew ==
  /\ last'.kind = "return"
  /\ last'.val.t = "result"
  /\ last'.val.ref \in (1..Len(heap')) \ Insts

\* A step's call returned its receiver and made no callback invocation.
ReturnedSelf ==
  /\ last'.kind = "return"
  /\ last'.val = Ref(last'.self)
  /\ calls' = <<>>
  /\ heap' = heap

AndThenStep ==
  /\ StepOnOk("andThen") =>
       LET v == heap[last'.self].value
           r == Body(last'.arg.name, v, heap)
       IN  /\ calls' = <<[fn |-> last'.arg.name, arg |-> v,
                          kind |-> r.kind, val |-> r.val]>>
           /\ last'.kind = r.kind
           /\ last'.val = r.val
           /\ heap' = r.heap
  /\ StepOnErr("andThen") =>
       /\ ReturnedSelf
       /\ heap'[last'.self] = ErrObj(heap[last'.self].error)

\* C3: andThen(fn) on an Ok holding v invokes fn once, on v, and completes
\* exactly as fn(v) did: it returns the very instance fn returned, and the
\* heap holds no instance but those fn made.  andThen(fn) on an Err never
\* invokes fn and returns the receiver, which still holds its error.
C3_AndThenBinds == [][AndThenStep]_vars

C3_Witness ==
  /\ OnOk("andThen")
  /\ last.arg = Fn("classify")
  /\ heap[last.self].value = Num(5)
  /\ last.kind = "return"
  /\ last.val = Ref(2)
  /\ heap[2] = OkObj(Str("Large: 5"))
  /\ Len(heap) = 2

MapStep ==
  /\ StepOnOk("map") =>
       LET v == heap[last'.self].value
           r == Body(last'.arg.name, v, heap)
       IN  /\ Len(calls') = 1
           /\ calls'[1].fn = last'.arg.name
           /\ calls'[1].arg = v
           /\ r.kind = "return" =>
                /\ ReturnedNew
                /\ heap'[last'.val.ref].tag = "ok"
                /\ unwrap(last'.val.ref, heap').kind = "return"
                /\ unwrap(last'.val.ref, heap').val = r.val
           /\ last'.arg.name = "identity" =>
                unwrap(last'.val.ref, heap').val = v
           /\ (last'.arg.name = "double" /\ v = Num(5)) =>
                unwrap(last'.val.ref, heap').val = Num(10)
  /\ StepOnErr("mapErr") =>
       LET e == heap[last'.self].error
           r == Body(last'.arg.name, e, heap)
       IN  /\ Len(calls') = 1
           /\ calls'[1].fn = last'.arg.name
           /\ calls'[1].arg = e
           /\ r.kind = "return" =>
                /\ ReturnedNew
                /\ heap'[last'.val.ref].tag = "err"
                /\ unwrapErr(last'.val.ref, heap').kind = "return"
                /\ unwrapErr(last'.val.ref, heap').val = r.val
           /\ last'.arg.name = "identity" =>
                unwrapErr(last'.val.ref, heap').val = e
           /\ (last'.arg.name = "enhance" /\ e = Str("5")) =>
                unwrapErr(last'.val.ref, heap').val = Str("Enhanced: 5")

\* C4: map(fn) on an Ok holding v invokes fn exactly once, on v, and (fn
\* having returned) returns a new Ok whose unwrap() is fn(v); mapErr(fn) on
\* an Err holding e likewise returns a new Err whose unwrapErr() is fn(e).
\* With the identity the new instance holds the receiver's payload.
C4_MapApplies == [][MapStep]_vars

C4_Witness ==
  /\ OnOk("map")
  /\ last.arg = Fn("double")
  /\ heap[last.self].value = Num(5)
  /\ last.val = Ref(2)
  /\ last.self = 1
  /\ heap[2] = OkObj(Num(10))
  /\ Len(calls) = 1

NoOpMapStep ==
  /\ StepOnErr("map") =>
       /\ ReturnedSelf
       /\ heap'[last'.self] = ErrObj(heap[last'.self].error)
  /\ StepOnOk("mapErr") =>
       /\ ReturnedSelf
       /\ heap'[last'.self] = OkObj(heap[last'.self].value)

\* C5: map(fn) on an Err and mapErr(fn) on an Ok return the receiver itself,
\* its payload as it was, never invoke fn and make no instance.
C5_MapOnOtherVariantIsNoOp == [][NoOpMapStep]_vars

C5_Witness ==
  /\ OnErr("map")
  /\ last.arg = Fn("raise")
  /\ last.kind = "return"
  /\ last.val = Ref(last.self)
  /\ calls = <<>>
  /\ heap[last.self] = ErrObj(NaN)

\* No step changes an instance the heap holds, or drops one.
InstancesKept ==
  \A i \in Insts : i \in 1..Len(heap') /\ heap'[i] = heap[i]

\* The chain's steps made so far, the throwing one included.
Steps == IF status = "thrown" THEN pc ELSE pc - 1

\* The place in trail of the chain's first Err, 0 when there is none yet.
FirstErr ==
  IF \E k \in 1..Len(trail) : heap[trail[k]].tag = "err"
    THEN CHOOSE k \in 1..Len(trail) :
           /\ heap[trail[k]].tag = "err"
           /\ \A j \in 1..(k - 1) : heap[trail[j]].tag = "ok"
    ELSE 0

ChainInv ==
  /\ Len(calls) = IF FirstErr = 0 THEN Steps ELSE FirstErr - 1
  /\ \A k \in 1..Len(calls) :
       /\ calls[k].fn = chain[k]
       /\ heap[trail[k]].tag = "ok"
       /\ calls[k].arg = heap[trail[k]].value
       /\ calls[k].kind = "return" =>
            k + 1 <= Len(trail) /\ calls[k].val = Ref(trail[k + 1])
  /\ FirstErr # 0 =>
       \A k \in FirstErr..Len(trail) : trail[k] = trail[FirstErr]
  /\ status = "done" =>
       /\ Len(trail) = Len(chain) + 1
       /\ last.kind = "return"
       /\ last.val = Ref(trail[Len(trail)])
       /\ FirstErr # 0 => last.val = Ref(trail[FirstErr])

\* C9: in a chain of andThen calls, step k's callback runs exactly while
\* every result so far is an Ok, on the value the previous result holds, and
\* its result is the next receiver; from the first Err on no callback is
\* invoked, every later result is that same Err instance, and so is the
\* chain's final result, its error as it was.
C9_ChainShortCircuits == [](ChainInv) /\ [][InstancesKept]_vars

C9_Witness ==
  /\ status = "done"
  /\ Len(chain) = 3
  /\ heap[1] = OkObj(Num(5))
  /\ FirstErr = 3
  /\ trail = <<1, 2, 3, 3>>
  /\ Len(calls) = 2
  /\ heap[3] = ErrObj(Str("Too small"))

\* Every instance is of exactly one variant, which its tag names.
Discriminants ==
  \A i \in Insts :
    /\ heap[i].isOk # heap[i].isErr
    /\ heap[i].isOk <=> heap[i].tag = "ok"
    /\ heap[i].isErr <=> heap[i].tag = "err"
    /\ heap[i] \in {OkObj(Held(heap[i])), ErrObj(Held(heap[i]))}

Transformed == last'.op \in {"map", "mapErr", "andThen"} /\ last'.kind = "return"

SelfOrNewStep ==
  /\ InstancesKept
  /\ Transformed => (last'.val = Ref(last'.self) \/ ReturnedNew)

ImmutableStep ==
  /\ InstancesKept
  /\ (Transformed /\ last'.op # "andThen") =>
       (last'.val = Ref(last'.self) \/ ReturnedNew)
  /\ (Transformed /\ StepOnErr("andThen")) => last'.val = Ref(last'.self)
  /\ (Transformed /\ StepOnOk("andThen")) =>
       /\ last'.val = calls'[1].val
       /\ last'.val.ref \in 1..Len(heap')

\* C10 as stated: no call changes an instance: each keeps the tag and the
\* payload it was constructed with, and exactly one of isOk / isErr is true of
\* it; map, mapErr and andThen return either the receiver or an instance that
\* was not there before the call.
C10_SelfOrNew == [](Discriminants) /\ [][SelfOrNewStep]_vars

\* C10 as amended: no call changes an instance, and exactly one of isOk /
\* isErr is true of each; map and mapErr return either the receiver or an
\* instance that was not there before the call; andThen returns the receiver
\* on an Err and the instance fn returned on an Ok, which is either new or one
\* that was already there.
C10_InstancesImmutable == [](Discriminants) /\ [][ImmutableStep]_vars

C10_Witness ==
  /\ OnOk("andThen")
  /\ last.arg = Fn("capture")
  /\ last.self = 2
  /\ last.kind = "return"
  /\ last.val = Ref(1)
  /\ heap = <<ErrObj(Sym(1)), OkObj(Obj(1))>>

====
